---- MODULE Spec2Model ----
(***************************************************************************)
(* Model of atomyst (src/atomyst.py): splitting one Python module into one *)
(* file per top-level definition plus an __init__.py aggregator, and the   *)
(* extraction of a single definition with the edited remainder.            *)
(*                                                                         *)
(* Text is a sequence of tokens.  A token is a string that the code never  *)
(* looks inside: one character ("(", "#", " ", the line terminator) or a   *)
(* word the code tests as a unit ("import ", "from ", "if TYPE_CHECKING"). *)
(* Concatenating the tokens of a value gives the Python text it stands for.*)
(***************************************************************************)
EXTENDS Integers, Sequences, FiniteSets, TLC

\* ------------------------------------------------------------------------
\* Bounds
\* ------------------------------------------------------------------------

\* A module is made of at most MaxBlocks top-level blocks of the catalogue.
MaxBlocks == 3

\* ------------------------------------------------------------------------
\* Tokens and the str methods the code uses
\* ------------------------------------------------------------------------

NL == "\n"
SP == " "
QQQ == "\"\"\""
DQ == "\""

\* str.strip() / str.lstrip() with no argument remove whitespace
IsSpace(c) == c \in {SP, NL}

RECURSIVE lstrip(_)
lstrip(s) == IF s # <<>> /\ IsSpace(Head(s)) THEN lstrip(Tail(s)) ELSE s

RECURSIVE rstrip(_)
rstrip(s) ==
    IF s # <<>> /\ IsSpace(s[Len(s)]) THEN rstrip(SubSeq(s, 1, Len(s) - 1)) ELSE s

strip(s) == rstrip(lstrip(s))

\* defn_content.lstrip("\n"): removes leading line terminators only
RECURSIVE lstripNL(_)
lstripNL(s) == IF s # <<>> /\ Head(s) = NL THEN lstripNL(Tail(s)) ELSE s

startswith(s, t) == s # <<>> /\ Head(s) = t

count(s, c) == Cardinality({i \in 1..Len(s) : s[i] = c})

\* "".join(lines)
RECURSIVE join(_)
join(ls) == IF ls = <<>> THEN <<>> ELSE Head(ls) \o join(Tail(ls))

\* index of the first line terminator of s, 0 when there is none
RECURSIVE FirstNL(_, _)
FirstNL(s, i) ==
    IF i > Len(s) THEN 0 ELSE IF s[i] = NL THEN i ELSE FirstNL(s, i + 1)

\* source.splitlines(keepends=True)
RECURSIVE splitlines(_)
splitlines(s) ==
    IF s = <<>> THEN <<>>
    ELSE LET k == FirstNL(s, 1)
         IN  IF k = 0 THEN <<s>>
             ELSE <<SubSeq(s, 1, k)>> \o splitlines(SubSeq(s, k + 1, Len(s)))

\* lines[a:b] of Python (0-indexed, end exclusive) on a 1-indexed sequence
Slice(ls, a, b) == SubSeq(ls, a + 1, IF b > Len(ls) THEN Len(ls) ELSE b)

\* ------------------------------------------------------------------------
\* The modules the model runs on: every sequence of at most MaxBlocks
\* blocks; each block is valid top-level Python and so is any sequence.
\* ------------------------------------------------------------------------

Blank == <<NL>>
Comment == <<"#", "x", NL>>
Import == <<"import ", "x", NL>>
FromParen == <<"from ", "x import ", "(", NL, SP, "x", NL, ")", NL>>
Guard == <<"if TYPE_CHECKING", ":", NL, SP, "import ", "x", NL>>
Doc == <<QQQ, "x", QQQ, NL>>
Stmt == <<"x", NL>>
ClassFoo == <<"class ", "Foo", ":", NL, SP, "x", NL>>
DecoratedDef == <<"@", "x", NL, "def ", "foo", "(", ")", ":", NL, SP, "x", NL>>
ClassHashTail == <<"class ", "Bar", ":", NL, SP, "x = ", QQQ, NL, "#", "x", QQQ, NL>>
DefInit == <<"async def ", "__init__", "(", ")", ":", "x", NL>>

Blocks ==
    {Blank, Comment, Import, FromParen, Guard, Doc, Stmt,
     ClassFoo, DecoratedDef, ClassHashTail, DefInit}

Modules == UNION {[1..n -> Blocks] : n \in 0..MaxBlocks}

\* the identifiers of the catalogue, as the characters to_snake_case reads
Chars ==
    [n \in {"Foo", "foo", "Bar", "__init__", "Missing"} |->
        CASE n = "Foo" -> <<"F", "o", "o">>
          [] n = "foo" -> <<"f", "o", "o">>
          [] n = "Bar" -> <<"B", "a", "r">>
          [] n = "__init__" -> <<"_", "_", "i", "n", "i", "t", "_", "_">>
          [] n = "Missing" -> <<"M", "i", "s", "s", "i", "n", "g">>]

Names == DOMAIN Chars

\* ------------------------------------------------------------------------
\* to_snake_case (identifier case conversion)
\* ------------------------------------------------------------------------

UpperSeq ==
    <<"A", "B", "C", "D", "E", "F", "G", "H", "I", "J", "K", "L", "M",
      "N", "O", "P", "Q", "R", "S", "T", "U", "V", "W", "X", "Y", "Z">>

LowerSeq ==
    <<"a", "b", "c", "d", "e", "f", "g", "h", "i", "j", "k", "l", "m",
      "n", "o", "p", "q", "r", "s", "t", "u", "v", "w", "x", "y", "z">>

IsUpper(c) == \E i \in DOMAIN UpperSeq : UpperSeq[i] = c
IsLower(c) == \E i \in DOMAIN LowerSeq : LowerSeq[i] = c
IsDigit(c) == c \in {"0", "1", "2", "3", "4", "5", "6", "7", "8", "9"}

\* str.lower(), one character
lowerChar(c) ==
    IF IsUpper(c) THEN LowerSeq[CHOOSE i \in DOMAIN UpperSeq : UpperSeq[i] = c] ELSE c

lower(s) == [i \in DOMAIN s |-> lowerChar(s[i])]

\* end of the greedy run [a-z]+ that starts at position i (i is lowercase)
RECURSIVE LowerRunEnd(_, _)
LowerRunEnd(s, i) ==
    IF i + 1 <= Len(s) /\ IsLower(s[i + 1]) THEN LowerRunEnd(s, i + 1) ELSE i

\* re.sub(r"(.)([A-Z][a-z]+)", r"\1_\2", s) from position i on
RECURSIVE SubWord(_, _)
SubWord(s, i) ==
    IF i > Len(s) THEN <<>>
    ELSE IF i + 2 <= Len(s) /\ IsUpper(s[i + 1]) /\ IsLower(s[i + 2])
         THEN LET j == LowerRunEnd(s, i + 2)
              IN  <<s[i], "_">> \o SubSeq(s, i + 1, j) \o SubWord(s, j + 1)
         ELSE <<s[i]>> \o SubWord(s, i + 1)

\* re.sub(r"([a-z0-9])([A-Z])", r"\1_\2", s) from position i on
RECURSIVE SubBoundary(_, _)
SubBoundary(s, i) ==
    IF i > Len(s) THEN <<>>
    ELSE IF i + 1 <= Len(s) /\ (IsLower(s[i]) \/ IsDigit(s[i])) /\ IsUpper(s[i + 1])
         THEN <<s[i], "_", s[i + 1]>> \o SubBoundary(s, i + 2)
         ELSE <<s[i]>> \o SubBoundary(s, i + 1)

to_snake_case(name) == lower(SubBoundary(SubWord(name, 1), 1))

\* ------------------------------------------------------------------------
\* extract_imports: the scanner over the lines of the module
\* ------------------------------------------------------------------------

\* len(line) - len(line.lstrip())
Indent(line) == Len(line) - Len(lstrip(line))

\* stripped.startswith(("import ", "from "))
StartsImport(stripped) == startswith(stripped, "import ") \/ startswith(stripped, "from ")

\* the scanner's local variables before the first line; idx records the
\* (1-indexed) positions of the lines appended to result, stopped the break
InitScan ==
    [result |-> <<>>, idx |-> <<>>, in_imports |-> FALSE, paren_depth |-> 0,
     in_type_checking |-> FALSE, type_checking_indent |-> 0, stopped |-> FALSE]

\* Append1 that appends the line without its indentation
Append1_unindented(st, line, i) ==
    [st EXCEPT !.result = Append(@, lstrip(line)), !.idx = Append(@, i)]

Append1(st, line, i) ==
    [st EXCEPT !.result = Append(@, line), !.idx = Append(@, i)]

\* ScanRules that includes a blank line wherever it stands
ScanRules_any_blank(st, line, i) ==
    LET stripped == strip(line)
        delta == count(line, "(") - count(line, ")")
    IN  IF startswith(stripped, "if TYPE_CHECKING") \/ stripped = <<"if TYPE_CHECKING", ":">>
        THEN [Append1(st, line, i) EXCEPT !.in_type_checking = TRUE,
                                          !.type_checking_indent = Indent(line),
                                          !.in_imports = TRUE]
        ELSE IF ~st.in_imports
                /\ (startswith(stripped, "#") \/ startswith(stripped, QQQ)
                    \/ startswith(stripped, "'''"))
        THEN Append1(st, line, i)
        ELSE IF StartsImport(stripped)
        THEN [Append1(st, line, i) EXCEPT !.in_imports = TRUE,
                                          !.paren_depth = @ + delta]
        ELSE IF st.paren_depth > 0
        THEN [Append1(st, line, i) EXCEPT !.paren_depth = @ + delta]
        ELSE IF stripped = <<>>
        THEN Append1(st, line, i)
        ELSE IF stripped # <<>> /\ ~StartsImport(stripped) /\ ~startswith(stripped, "#")
        THEN [st EXCEPT !.stopped = TRUE]
        ELSE st

\* ScanRules whose last rule skips the line instead of breaking
ScanRules_no_break(st, line, i) ==
    LET stripped == strip(line)
        delta == count(line, "(") - count(line, ")")
    IN  IF startswith(stripped, "if TYPE_CHECKING") \/ stripped = <<"if TYPE_CHECKING", ":">>
        THEN [Append1(st, line, i) EXCEPT !.in_type_checking = TRUE,
                                          !.type_checking_indent = Indent(line),
                                          !.in_imports = TRUE]
        ELSE IF ~st.in_imports
                /\ (startswith(stripped, "#") \/ startswith(stripped, QQQ)
                    \/ startswith(stripped, "'''"))
        THEN Append1(st, line, i)
        ELSE IF StartsImport(stripped)
        THEN [Append1(st, line, i) EXCEPT !.in_imports = TRUE,
                                          !.paren_depth = @ + delta]
        ELSE IF st.paren_depth > 0
        THEN [Append1(st, line, i) EXCEPT !.paren_depth = @ + delta]
        ELSE IF st.in_imports /\ stripped = <<>>
        THEN Append1(st, line, i)
        ELSE st

\* the rules below the TYPE_CHECKING body rule, on scanner state st
ScanRules(st, line, i) ==
    LET stripped == strip(line)
        delta == count(line, "(") - count(line, ")")
    IN  IF startswith(stripped, "if TYPE_CHECKING") \/ stripped = <<"if TYPE_CHECKING", ":">>
        THEN [Append1(st, line, i) EXCEPT !.in_type_checking = TRUE,
                                          !.type_checking_indent = Indent(line),
                                          !.in_imports = TRUE]
        ELSE IF ~st.in_imports
                /\ (startswith(stripped, "#") \/ startswith(stripped, QQQ)
                    \/ startswith(stripped, "'''"))
        THEN Append1(st, line, i)
        ELSE IF StartsImport(stripped)
        THEN [Append1(st, line, i) EXCEPT !.in_imports = TRUE,
                                          !.paren_depth = @ + delta]
        ELSE IF st.paren_depth > 0
        THEN [Append1(st, line, i) EXCEPT !.paren_depth = @ + delta]
        ELSE IF st.in_imports /\ stripped = <<>>
        THEN Append1(st, line, i)
        ELSE IF stripped # <<>> /\ ~StartsImport(stripped) /\ ~startswith(stripped, "#")
        THEN [st EXCEPT !.stopped = TRUE]
        ELSE st

\* ScanLine that keeps a line at the header's own indentation in the block
ScanLine_same_indent_in_block(st, line, i) ==
    LET stripped == strip(line)
    IN  IF st.in_type_checking
        THEN IF stripped # <<>>
             THEN IF Indent(line) >= st.type_checking_indent
                  THEN Append1(st, line, i)
                  ELSE ScanRules([st EXCEPT !.in_type_checking = FALSE], line, i)
             ELSE Append1(st, line, i)
        ELSE ScanRules(st, line, i)

\* one iteration of the for loop, on line number i
ScanLine(st, line, i) ==
    LET stripped == strip(line)
    IN  IF st.in_type_checking
        THEN IF stripped # <<>>
             THEN IF Indent(line) > st.type_checking_indent
                  THEN Append1(st, line, i)
                  ELSE ScanRules([st EXCEPT !.in_type_checking = FALSE], line, i)
             ELSE Append1(st, line, i)
        ELSE ScanRules(st, line, i)

\* the scanner after the first j lines (unchanged once the loop has broken)
RECURSIVE ScanPrefix(_, _)
ScanPrefix(lines, j) ==
    IF j = 0 THEN InitScan
    ELSE LET p == ScanPrefix(lines, j - 1)
         IN  IF p.stopped THEN p ELSE ScanLine(p, lines[j], j)

extract_imports(lines) == ScanPrefix(lines, Len(lines)).result

\* ------------------------------------------------------------------------
\* find_comment_start
\* ------------------------------------------------------------------------

\* CommentWalk that also walks over blank lines
RECURSIVE CommentWalk_over_blanks(_, _)
CommentWalk_over_blanks(lines, idx) ==
    IF idx >= 0 /\ (startswith(strip(lines[idx + 1]), "#") \/ strip(lines[idx + 1]) = <<>>)
    THEN CommentWalk_over_blanks(lines, idx - 1)
    ELSE idx

\* the while loop from 0-indexed position idx downwards
RECURSIVE CommentWalk(_, _)
CommentWalk(lines, idx) ==
    IF idx >= 0 /\ startswith(strip(lines[idx + 1]), "#")
    THEN CommentWalk(lines, idx - 1)
    ELSE idx

find_comment_start(lines, start_line) == CommentWalk(lines, start_line - 2) + 2

\* ------------------------------------------------------------------------
\* extract_definitions: ast.parse on the module text, then one Definition
\* per top-level class / def / async def node
\* ------------------------------------------------------------------------

\* the tokenizer over one physical line from token i on: whether a
\* triple-quoted string is open and how many brackets are
RECURSIVE Lex(_, _, _, _)
Lex(line, i, inStr, depth) ==
    IF i > Len(line) THEN [inStr |-> inStr, depth |-> depth]
    ELSE IF inStr THEN Lex(line, i + 1, line[i] # QQQ, depth)
    ELSE IF line[i] = "#" THEN [inStr |-> FALSE, depth |-> depth]
    ELSE IF line[i] = QQQ THEN Lex(line, i + 1, TRUE, depth)
    ELSE IF line[i] = "(" THEN Lex(line, i + 1, FALSE, depth + 1)
    ELSE IF line[i] = ")" THEN Lex(line, i + 1, FALSE, depth - 1)
    ELSE Lex(line, i + 1, FALSE, depth)

DefKeywords == {"class ", "def ", "async def "}

KindOf(keyword) ==
    CASE keyword = "class " -> "CLASS"
      [] keyword = "def " -> "FUNCTION"
      [] keyword = "async def " -> "ASYNC_FUNCTION"

InitParse ==
    [defs |-> <<>>, open |-> FALSE, isDef |-> FALSE, pending |-> FALSE,
     name |-> "", kind |-> "", start |-> 0, end |-> 0, inStr |-> FALSE, depth |-> 0]

\* CloseNode that takes end_lineno as exclusive
CloseNode_end_exclusive(p) ==
    IF p.open /\ p.isDef
    THEN [p EXCEPT !.defs = Append(@, [name |-> p.name, kind |-> p.kind,
                                       start_line |-> p.start, end_line |-> p.end + 1]),
                   !.open = FALSE]
    ELSE [p EXCEPT !.open = FALSE]

\* node_to_definition on the top-level statement that just ended
CloseNode(p) ==
    IF p.open /\ p.isDef
    THEN [p EXCEPT !.defs = Append(@, [name |-> p.name, kind |-> p.kind,
                                       start_line |-> p.start, end_line |-> p.end]),
                   !.open = FALSE]
    ELSE [p EXCEPT !.open = FALSE]

\* a top-level logical line that opens a statement at line i: a decorator
\* (its definition follows), a definition, or any other statement
OpenNode(p, stripped, i) ==
    IF startswith(stripped, "@")
    THEN [p EXCEPT !.open = TRUE, !.isDef = FALSE, !.pending = TRUE, !.start = i, !.end = i]
    ELSE IF Head(stripped) \in DefKeywords
    THEN [p EXCEPT !.open = TRUE, !.isDef = TRUE, !.pending = FALSE,
                   !.name = stripped[2], !.kind = KindOf(Head(stripped)),
                   !.start = i, !.end = i]
    ELSE [p EXCEPT !.open = TRUE, !.isDef = FALSE, !.pending = FALSE, !.start = i, !.end = i]

\* ParseLine that starts a decorated definition at its keyword line
ParseLine_start_at_keyword(p, line, i) ==
    LET stripped == strip(line)
        cont == p.inStr \/ p.depth > 0
        lx == Lex(line, 1, p.inStr, p.depth)
        q == [p EXCEPT !.inStr = lx.inStr, !.depth = lx.depth]
    IN  IF cont THEN [q EXCEPT !.end = i]
        ELSE IF stripped = <<>> \/ startswith(stripped, "#") THEN q
        ELSE IF Indent(line) > 0 THEN [q EXCEPT !.end = i]
        ELSE IF p.pending
        THEN IF startswith(stripped, "@") THEN [q EXCEPT !.end = i]
             ELSE [q EXCEPT !.pending = FALSE, !.isDef = Head(stripped) \in DefKeywords,
                            !.name = stripped[2], !.kind = KindOf(Head(stripped)),
                            !.start = i, !.end = i]
        ELSE OpenNode(CloseNode(q), stripped, i)

\* the parser over physical line i
ParseLine(p, line, i) ==
    LET stripped == strip(line)
        cont == p.inStr \/ p.depth > 0
        lx == Lex(line, 1, p.inStr, p.depth)
        q == [p EXCEPT !.inStr = lx.inStr, !.depth = lx.depth]
    IN  IF cont THEN [q EXCEPT !.end = i]
        ELSE IF stripped = <<>> \/ startswith(stripped, "#") THEN q
        ELSE IF Indent(line) > 0 THEN [q EXCEPT !.end = i]
        ELSE IF p.pending
        THEN IF startswith(stripped, "@") THEN [q EXCEPT !.end = i]
             ELSE [q EXCEPT !.pending = FALSE, !.isDef = Head(stripped) \in DefKeywords,
                            !.name = stripped[2], !.kind = KindOf(Head(stripped)),
                            !.end = i]
        ELSE OpenNode(CloseNode(q), stripped, i)

RECURSIVE ParsePrefix(_, _)
ParsePrefix(lines, j) ==
    IF j = 0 THEN InitParse ELSE ParseLine(ParsePrefix(lines, j - 1), lines[j], j)

extract_definitions(source) ==
    LET lines == splitlines(source)
    IN  CloseNode(ParsePrefix(lines, Len(lines))).defs

\* ------------------------------------------------------------------------
\* Builders
\* ------------------------------------------------------------------------

PyExt == <<".py">>

\* build_definition_file that slices from the nominal start line
build_definition_file_nominal(defn, lines, import_block) ==
    LET defn_lines == Slice(lines, defn.start_line - 1, defn.end_line)
        defn_content == join(defn_lines)
        file_content == import_block \o <<NL, NL>> \o lstripNL(defn_content)
        filename == to_snake_case(Chars[defn.name]) \o PyExt
    IN  [relative_path |-> filename, content |-> file_content]

build_definition_file(defn, lines, import_block) ==
    LET actual_start == find_comment_start(lines, defn.start_line)
        defn_lines == Slice(lines, actual_start - 1, defn.end_line)
        defn_content == join(defn_lines)
        file_content == import_block \o <<NL, NL>> \o lstripNL(defn_content)
        filename == to_snake_case(Chars[defn.name]) \o PyExt
    IN  [relative_path |-> filename, content |-> file_content]

InitPath == Chars["__init__"] \o PyExt

RECURSIVE ReExportLines(_)
ReExportLines(definitions) ==
    IF definitions = <<>> THEN <<>>
    ELSE LET defn == Head(definitions)
             stem == to_snake_case(Chars[defn.name])
         IN  <<"from .">> \o stem \o <<" import ", defn.name, NL>>
                 \o ReExportLines(Tail(definitions))

\* AllLines that lists a name once, at its last definition
RECURSIVE AllLines_unique(_)
AllLines_unique(definitions) ==
    IF definitions = <<>> THEN <<>>
    ELSE IF \E i \in DOMAIN Tail(definitions) : Tail(definitions)[i].name = Head(definitions).name
         THEN AllLines_unique(Tail(definitions))
         ELSE <<"    ", DQ, Head(definitions).name, DQ, ",", NL>>
                  \o AllLines_unique(Tail(definitions))

RECURSIVE AllLines(_)
AllLines(definitions) ==
    IF definitions = <<>> THEN <<>>
    ELSE <<"    ", DQ, Head(definitions).name, DQ, ",", NL>> \o AllLines(Tail(definitions))

build_init_file(definitions) ==
    [relative_path |-> InitPath,
     content |-> <<QQQ, "Auto-generated by atomyst.", QQQ, NL, NL>>
                     \o ReExportLines(definitions)
                     \o <<NL, "__all__ = [", NL>>
                     \o AllLines(definitions)
                     \o <<"]", NL>>]

\* ------------------------------------------------------------------------
\* extract_one and plan_atomization
\* ------------------------------------------------------------------------

None == [found |-> FALSE]

\* FindTarget that keeps the last definition of that name
RECURSIVE FindTarget_last(_, _, _)
FindTarget_last(definitions, name, i) ==
    IF i > Len(definitions) THEN 0
    ELSE LET later == FindTarget_last(definitions, name, i + 1)
         IN  IF later # 0 THEN later
             ELSE IF definitions[i].name = name THEN i ELSE 0

\* FindTarget that is left on the last definition when none has the name
RECURSIVE FindTarget_falls_back(_, _, _)
FindTarget_falls_back(definitions, name, i) ==
    IF i > Len(definitions) THEN Len(definitions)
    ELSE IF definitions[i].name = name THEN i
    ELSE FindTarget_falls_back(definitions, name, i + 1)

\* the for loop with break: the first definition of that name, 0 for None
RECURSIVE FindTarget(_, _, _)
FindTarget(definitions, name, i) ==
    IF i > Len(definitions) THEN 0
    ELSE IF definitions[i].name = name THEN i
    ELSE FindTarget(definitions, name, i + 1)

\* extract_one that cuts the remainder at the nominal start line
extract_one_nominal_cut(src, name) ==
    LET lines == splitlines(src)
        definitions == extract_definitions(src)
        import_lines == extract_imports(lines)
        import_block == join(import_lines)
        t == FindTarget(definitions, name, 1)
    IN  IF t = 0 THEN None
        ELSE LET target == definitions[t]
                 extracted == build_definition_file(target, lines, import_block)
                 before == Slice(lines, 0, target.start_line - 1)
                 after == Slice(lines, target.end_line, Len(lines))
                 remainder_lines == before \o after
                 remainder == join(remainder_lines)
             IN  [found |-> TRUE, extracted |-> extracted, remainder |-> remainder]

extract_one(src, name) ==
    LET lines == splitlines(src)
        definitions == extract_definitions(src)
        import_lines == extract_imports(lines)
        import_block == join(import_lines)
        t == FindTarget(definitions, name, 1)
    IN  IF t = 0 THEN None
        ELSE LET target == definitions[t]
                 extracted == build_definition_file(target, lines, import_block)
                 actual_start == find_comment_start(lines, target.start_line)
                 before == Slice(lines, 0, actual_start - 1)
                 after == Slice(lines, target.end_line, Len(lines))
                 remainder_lines == before \o after
                 remainder == join(remainder_lines)
             IN  [found |-> TRUE, extracted |-> extracted, remainder |-> remainder]

\* plan_atomization that builds no aggregator for a module without definitions
plan_atomization_no_empty_init(src, source_name) ==
    LET lines == splitlines(src)
        definitions == extract_definitions(src)
        import_lines == extract_imports(lines)
        import_block == join(import_lines)
        definition_files ==
            [i \in 1..Len(definitions) |->
                build_definition_file(definitions[i], lines, import_block)]
        init_file == build_init_file(definitions)
        output_files ==
            IF definitions = <<>> THEN <<>> ELSE definition_files \o <<init_file>>
    IN  [source_name |-> source_name, definitions |-> definitions,
         output_files |-> output_files, import_block |-> import_block]

plan_atomization(src, source_name) ==
    LET lines == splitlines(src)
        definitions == extract_definitions(src)
        import_lines == extract_imports(lines)
        import_block == join(import_lines)
        definition_files ==
            [i \in 1..Len(definitions) |->
                build_definition_file(definitions[i], lines, import_block)]
        init_file == build_init_file(definitions)
        output_files == definition_files \o <<init_file>>
    IN  [source_name |-> source_name, definitions |-> definitions,
         output_files |-> output_files, import_block |-> import_block]

\* ------------------------------------------------------------------------
\* State: one module and the result of the one call made on it
\* ------------------------------------------------------------------------

VARIABLES
    source,         \* the module text given to the call
    pc,             \* "start", then which function has returned
    plan,           \* plan_atomization's AtomizePlan
    request,        \* the name asked of extract_one
    extraction,     \* extract_one's ExtractionResult, or None
    nominal,        \* the start line given to find_comment_start
    resolved,       \* find_comment_start's result
    scan,           \* extract_imports' scanner when it returns
    parsed,         \* extract_definitions' result
    request2,       \* the name asked of a second extract_one
    extraction2,    \* its result, on the remainder of the first
    ident,          \* the identifier given to to_snake_case
    snake,          \* to_snake_case's result
    src_exists,     \* file system: the source path exists
    dirs,           \* file system: the directories that exist
    files,          \* file system: the files, each a directory, a name, a content
    dirs0,          \* dirs when run was entered
    files0,         \* files when run was entered
    output_dir,     \* run's output_dir argument, "" for None
    dry_run,        \* run's dry_run argument
    did_read,       \* run has called read_source
    created,        \* write_files' list of the paths written so far
    written_paths,  \* run's written_paths
    outcome,        \* run's AtomizeOutcome, once built
    exit_code,      \* run's exit code, -1 until it returns
    output,         \* run's text to display
    error           \* the exception that left run, "" for none

callvars ==
    <<request, extraction, nominal, resolved, scan, parsed, request2, extraction2,
      ident, snake>>

runvars ==
    <<src_exists, dirs, files, dirs0, files0, output_dir, dry_run, did_read,
      created, written_paths, outcome, exit_code, output, error>>

vars == <<source, pc, plan, callvars, runvars>>

NoPlan ==
    [source_name |-> "", definitions |-> <<>>, output_files |-> <<>>, import_block |-> <<>>]

SourceName == "input.py"

NoOutcome == [built |-> FALSE]

\* written_paths = None
NoPaths == [none |-> TRUE]

\* nothing returned yet; renderer names the renderer that made the text
NoOutput == [renderer |-> "", text |-> <<>>]

\* no call made yet
CallIdle ==
    /\ plan = NoPlan
    /\ request = ""
    /\ extraction = None
    /\ nominal = 0
    /\ resolved = 0
    /\ scan = InitScan
    /\ parsed = <<>>
    /\ request2 = ""
    /\ extraction2 = None
    /\ ident = <<>>
    /\ snake = <<>>

\* run not entered: the file system holds the source file only
RunIdle ==
    /\ src_exists = TRUE
    /\ dirs = {}
    /\ files = {}
    /\ dirs0 = {}
    /\ files0 = {}
    /\ output_dir = ""
    /\ dry_run = FALSE
    /\ did_read = FALSE
    /\ created = <<>>
    /\ written_paths = NoPaths
    /\ outcome = NoOutcome
    /\ exit_code = -1
    /\ output = NoOutput
    /\ error = ""

Init ==
    /\ \E m \in Modules : source = join(m)
    /\ pc = "start"
    /\ CallIdle
    /\ RunIdle

PlanAtomization ==
    /\ pc = "start"
    /\ plan' = plan_atomization(source, SourceName)
    /\ pc' = "planned"
    /\ UNCHANGED <<source, callvars, runvars>>

ExtractOne ==
    /\ pc = "start"
    /\ \E name \in Names :
        /\ request' = name
        /\ extraction' = extract_one(source, name)
    /\ pc' = "extracted"
    /\ UNCHANGED <<source, plan, nominal, resolved, scan, parsed,
                   request2, extraction2, ident, snake, runvars>>

FindCommentStart ==
    /\ pc = "start"
    /\ \E s \in 1..(Len(splitlines(source)) + 1) :
        /\ nominal' = s
        /\ resolved' = find_comment_start(splitlines(source), s)
    /\ pc' = "resolved"
    /\ UNCHANGED <<source, plan, request, extraction, scan, parsed,
                   request2, extraction2, ident, snake, runvars>>

ExtractImports ==
    /\ pc = "start"
    /\ scan' = ScanPrefix(splitlines(source), Len(splitlines(source)))
    /\ pc' = "scanned"
    /\ UNCHANGED <<source, plan, request, extraction, nominal, resolved, parsed,
                   request2, extraction2, ident, snake, runvars>>

\* the whole-module operations
Next == PlanAtomization \/ ExtractOne

Spec == Init /\ [][Next]_vars

\* the line-level functions, called on their own
NextLines == FindCommentStart \/ ExtractImports

SpecLines == Init /\ [][NextLines]_vars

\* ------------------------------------------------------------------------
\* run: the orchestration and its two I/O actions, one step per statement
\* that reads or changes the file system or returns
\* ------------------------------------------------------------------------

\* a statement ast.parse rejects: the parenthesis is never closed
Unclosed == <<"x", "(", NL>>

RunBlocks == {Import, ClassFoo, DecoratedDef, ClassHashTail, Unclosed}

RunModules == UNION {[1..n -> RunBlocks] : n \in 0..MaxBlocks}

\* ast.parse(source) raises SyntaxError: the text ends inside a bracket or a
\* string, or after a decorator with nothing to decorate
ParseFails(src) ==
    LET lines == splitlines(src)
        p == ParsePrefix(lines, Len(lines))
    IN  p.inStr \/ p.depth # 0 \/ p.pending

\* source_path.stem, and an explicit --output directory
Stem == "input"
Out == "out"

\* output_dir or source_path.parent / source_path.stem
resolved_output_dir == IF output_dir # "" THEN output_dir ELSE Stem

\* files found in a directory that an earlier run or the user left there
OldFiles(d) ==
    {[dir |-> d, path |-> to_snake_case(Chars["Foo"]) \o PyExt, content |-> <<"old", NL>>],
     [dir |-> d, path |-> <<"keep">> \o PyExt, content |-> <<"old", NL>>]}

FileSystems ==
    {[dirs |-> {}, files |-> {}],
     [dirs |-> {Stem, Out}, files |-> OldFiles(Stem) \cup OldFiles(Out)]}

\* path.write_text(content): creates the file or replaces its content
write_text(fs, d, path, content) ==
    {f \in fs : ~(f.dir = d /\ f.path = path)}
        \cup {[dir |-> d, path |-> path, content |-> content]}

Digits == <<"0", "1", "2", "3", "4", "5", "6", "7", "8", "9">>

\* str(n) of a natural number, as the f-strings format it
RECURSIVE str(_)
str(n) == IF n < 10 THEN <<Digits[n + 1]>> ELSE str(n \div 10) \o <<Digits[(n % 10) + 1]>>

render_error(message) == [renderer |-> "render_error", text |-> <<"Error: ">> \o message]

\* the line render_outcome_text adds after the rendering of the plan
render_outcome_text(oc) ==
    [renderer |-> "render_outcome_text",
     text |-> IF oc.written_paths = NoPaths
              THEN <<"[DRY RUN] No files written.">>
              ELSE <<"Created ">> \o str(Len(oc.written_paths.paths))
                       \o <<" files in ", oc.output_dir, "/">>]

\* render_plan_json renders the plan alone
render_plan_json(p) == [renderer |-> "render_plan_json", text |-> <<>>]

InitRun ==
    /\ \E m \in RunModules, e \in BOOLEAN :
          /\ src_exists = e
          /\ source = IF e THEN join(m) ELSE <<>>
    /\ \E fs \in FileSystems :
          /\ dirs = fs.dirs
          /\ files = fs.files
    /\ dirs0 = dirs
    /\ files0 = files
    /\ output_dir \in {"", Out}
    /\ dry_run \in BOOLEAN
    /\ pc = "run"
    /\ CallIdle
    /\ did_read = FALSE
    /\ created = <<>>
    /\ written_paths = NoPaths
    /\ outcome = NoOutcome
    /\ exit_code = -1
    /\ output = NoOutput
    /\ error = ""

fsvars == <<src_exists, dirs, files, dirs0, files0>>

argvars == <<output_dir, dry_run>>

\* RunExists that goes on to read whether or not the path exists
RunExists_no_return ==
    /\ pc = "run"
    /\ pc' = "read"
    /\ UNCHANGED <<source, plan, callvars, fsvars, argvars, did_read, created,
                   written_paths, outcome, exit_code, output, error>>

\* if not source_path.exists(): return (1, render_error(...))
RunExists ==
    /\ pc = "run"
    /\ IF ~src_exists
       THEN /\ exit_code' = 1
            /\ output' = render_error(<<SourceName, " does not exist">>)
            /\ pc' = "done"
       ELSE /\ pc' = "read"
            /\ UNCHANGED <<exit_code, output>>
    /\ UNCHANGED <<source, plan, callvars, fsvars, argvars, did_read, created,
                   written_paths, outcome, error>>

\* RunRead that creates the output directory as soon as the source is read
RunRead_mkdir_first ==
    /\ pc = "read"
    /\ did_read' = TRUE
    /\ dirs' = dirs \cup {resolved_output_dir}
    /\ pc' = "plan"
    /\ UNCHANGED <<source, plan, callvars, src_exists, files, dirs0, files0, argvars,
                   created, written_paths, outcome, exit_code, output, error>>

\* source = read_source(source_path)
RunRead ==
    /\ pc = "read"
    /\ did_read' = TRUE
    /\ pc' = "plan"
    /\ UNCHANGED <<source, plan, callvars, fsvars, argvars, created,
                   written_paths, outcome, exit_code, output, error>>

\* RunPlan that goes on to the write step whatever the plan holds
RunPlan_no_early_return ==
    /\ pc = "plan"
    /\ IF ParseFails(source)
       THEN /\ error' = "SyntaxError"
            /\ pc' = "raised"
            /\ UNCHANGED plan
       ELSE /\ plan' = plan_atomization(source, SourceName)
            /\ pc' = "write"
            /\ UNCHANGED error
    /\ UNCHANGED <<source, callvars, fsvars, argvars, did_read, created,
                   written_paths, outcome, exit_code, output>>

\* plan = plan_atomization(source, source_path.name), the SyntaxError of
\* ast.parse leaving run; then the return for a plan without definitions
RunPlan ==
    /\ pc = "plan"
    /\ IF ParseFails(source)
       THEN /\ error' = "SyntaxError"
            /\ pc' = "raised"
            /\ UNCHANGED <<plan, exit_code, output>>
       ELSE /\ plan' = plan_atomization(source, SourceName)
            /\ IF plan'.definitions = <<>>
               THEN /\ exit_code' = 0
                    /\ output' = [renderer |-> "",
                                  text |-> <<"No definitions found in ", SourceName>>]
                    /\ pc' = "done"
               ELSE /\ pc' = "write"
                    /\ UNCHANGED <<exit_code, output>>
            /\ UNCHANGED error
    /\ UNCHANGED <<source, callvars, fsvars, argvars, did_read, created,
                   written_paths, outcome>>

\* if dry_run: written_paths = None
RunDry ==
    /\ pc = "write"
    /\ dry_run
    /\ written_paths' = NoPaths
    /\ pc' = "outcome"
    /\ UNCHANGED <<source, plan, callvars, fsvars, argvars, did_read, created,
                   outcome, exit_code, output, error>>

\* RunMkdir that does not look at dry_run
RunMkdir_ignores_dry_run ==
    /\ pc = "write"
    /\ dirs' = dirs \cup {resolved_output_dir}
    /\ created' = <<>>
    /\ pc' = "writing"
    /\ UNCHANGED <<source, plan, callvars, src_exists, files, dirs0, files0, argvars,
                   did_read, written_paths, outcome, exit_code, output, error>>

\* write_files: output_dir.mkdir(parents=True, exist_ok=True); created = []
RunMkdir ==
    /\ pc = "write"
    /\ ~dry_run
    /\ dirs' = dirs \cup {resolved_output_dir}
    /\ created' = <<>>
    /\ pc' = "writing"
    /\ UNCHANGED <<source, plan, callvars, src_exists, files, dirs0, files0, argvars,
                   did_read, written_paths, outcome, exit_code, output, error>>

\* RunWriteFile that takes the files of the plan from the last to the first
RunWriteFile_last_first ==
    /\ pc = "writing"
    /\ Len(created) < Len(plan.output_files)
    /\ LET f == plan.output_files[Len(plan.output_files) - Len(created)]
       IN  /\ files' = write_text(files, resolved_output_dir, f.relative_path, f.content)
           /\ created' = Append(created, [dir |-> resolved_output_dir,
                                          path |-> f.relative_path])
    /\ UNCHANGED <<source, pc, plan, callvars, src_exists, dirs, dirs0, files0, argvars,
                   did_read, written_paths, outcome, exit_code, output, error>>

\* write_files: one turn of the loop over the files of the plan
RunWriteFile ==
    /\ pc = "writing"
    /\ Len(created) < Len(plan.output_files)
    /\ LET f == plan.output_files[Len(created) + 1]
       IN  /\ files' = write_text(files, resolved_output_dir, f.relative_path, f.content)
           /\ created' = Append(created, [dir |-> resolved_output_dir,
                                          path |-> f.relative_path])
    /\ UNCHANGED <<source, pc, plan, callvars, src_exists, dirs, dirs0, files0, argvars,
                   did_read, written_paths, outcome, exit_code, output, error>>

\* write_files: path.write_text raises OSError, either on opening the file
\* (the file system is as before) or while writing to it (the file is there,
\* emptied); nothing is caught
RunWriteFails ==
    /\ pc = "writing"
    /\ Len(created) < Len(plan.output_files)
    /\ \E opened \in BOOLEAN :
          files' = IF opened
                   THEN write_text(files, resolved_output_dir,
                                   plan.output_files[Len(created) + 1].relative_path, <<>>)
                   ELSE files
    /\ error' = "OSError"
    /\ pc' = "raised"
    /\ UNCHANGED <<source, plan, callvars, src_exists, dirs, dirs0, files0, argvars,
                   did_read, created, written_paths, outcome, exit_code, output>>

\* write_files: return tuple(created)
RunWritten ==
    /\ pc = "writing"
    /\ Len(created) = Len(plan.output_files)
    /\ written_paths' = [none |-> FALSE, paths |-> created]
    /\ pc' = "outcome"
    /\ UNCHANGED <<source, plan, callvars, fsvars, argvars, did_read, created,
                   outcome, exit_code, output, error>>

\* outcome = AtomizeOutcome(...); render; return (0, output)
RunReturn ==
    /\ pc = "outcome"
    /\ outcome' = [built |-> TRUE, plan |-> plan, written_paths |-> written_paths,
                   output_dir |-> resolved_output_dir]
    /\ \E output_format \in {"text", "json"} :
          output' = IF output_format = "json"
                    THEN render_plan_json(outcome'.plan)
                    ELSE render_outcome_text(outcome')
    /\ exit_code' = 0
    /\ pc' = "done"
    /\ UNCHANGED <<source, plan, callvars, fsvars, argvars, did_read, created,
                   written_paths, error>>

NextRun ==
    \/ RunExists
    \/ RunRead
    \/ RunPlan
    \/ RunDry
    \/ RunMkdir
    \/ RunWriteFile
    \/ RunWriteFails
    \/ RunWritten
    \/ RunReturn

SpecRun == InitRun /\ [][NextRun]_vars

\* ------------------------------------------------------------------------
\* extract_definitions on its own, over modules with decorated definitions
\* ------------------------------------------------------------------------

TwiceDecorated ==
    <<"@", "x", NL, "@", "x", NL, "class ", "Bar", ":", NL, SP, "x", NL>>

\* a comment and a blank line between the decorator and its definition
DecoratedGap ==
    <<"@", "x", NL, "#", "x", NL, NL, "async def ", "Missing", "(", ")", ":", NL, SP, "x", NL>>

DefBlocks ==
    {Blank, Comment, Stmt, ClassFoo, DecoratedDef, TwiceDecorated, DecoratedGap,
     ClassHashTail, DefInit}

DefModules == UNION {[1..n -> DefBlocks] : n \in 0..MaxBlocks}

InitDefs ==
    /\ \E m \in DefModules : source = join(m)
    /\ pc = "start"
    /\ CallIdle
    /\ RunIdle

ExtractDefinitions ==
    /\ pc = "start"
    /\ parsed' = extract_definitions(source)
    /\ pc' = "parsed"
    /\ UNCHANGED <<source, plan, request, extraction, nominal, resolved, scan,
                   request2, extraction2, ident, snake, runvars>>

NextDefs == ExtractDefinitions

SpecDefs == InitDefs /\ [][NextDefs]_vars

\* ------------------------------------------------------------------------
\* extract_imports over modules with a documentation preamble and guards
\* ------------------------------------------------------------------------

\* a documentation string that ends on its second line
DocTwoLines == <<QQQ, "x", NL, "x", QQQ, NL>>

\* a documentation string whose closing quotes stand on a line of their own
DocClosedAlone == <<QQQ, "x", NL, QQQ, NL>>

\* a guard whose body holds a blank line and a statement that is no import
GuardBlank ==
    <<"if TYPE_CHECKING", ":", NL, SP, "import ", "x", NL, NL, SP, "x", NL>>

PreambleBlocks ==
    {Blank, Comment, Doc, DocTwoLines, DocClosedAlone, Import, Guard, GuardBlank,
     Stmt, ClassFoo}

PreambleModules == UNION {[1..n -> PreambleBlocks] : n \in 0..MaxBlocks}

InitPreamble ==
    /\ \E m \in PreambleModules : source = join(m)
    /\ pc = "start"
    /\ CallIdle
    /\ RunIdle

NextPreamble == ExtractImports

SpecPreamble == InitPreamble /\ [][NextPreamble]_vars

\* ------------------------------------------------------------------------
\* extract_imports over modules with parenthesized imports
\* ------------------------------------------------------------------------

\* a parenthesized import with a blank line between the parentheses
FromParenBlank == <<"from ", "x import ", "(", NL, NL, SP, "x", NL, ")", NL>>

\* a parenthesized import whose continuation line ends in a comment that
\* holds an opening parenthesis
FromParenHash == <<"from ", "x import ", "(", NL, SP, "x", SP, "#", "(", NL, ")", NL>>

\* a guard whose body is a parenthesized import closed at the left margin
GuardParen ==
    <<"if TYPE_CHECKING", ":", NL, SP, "from ", "x import ", "(", NL,
      SP, SP, "x", NL, ")", NL>>

ImportBlocks ==
    {Blank, Comment, Doc, Import, FromParen, FromParenBlank, FromParenHash,
     Guard, GuardBlank, GuardParen, Stmt, ClassFoo}

ImportModules == UNION {[1..n -> ImportBlocks] : n \in 0..MaxBlocks}

InitImports ==
    /\ \E m \in ImportModules : source = join(m)
    /\ pc = "start"
    /\ CallIdle
    /\ RunIdle

NextImports == ExtractImports

SpecImports == InitImports /\ [][NextImports]_vars

\* ------------------------------------------------------------------------
\* extract_one, once and then once more on the remainder
\* ------------------------------------------------------------------------

\* a function that bears the name of the class of ClassFoo
DefFoo == <<"def ", "Foo", "(", ")", ":", "x", NL>>

ExtractBlocks ==
    {Blank, Comment, Import, Stmt, ClassFoo, DefFoo, DecoratedDef, ClassHashTail}

ExtractModules == UNION {[1..n -> ExtractBlocks] : n \in 0..MaxBlocks}

InitExtract ==
    /\ \E m \in ExtractModules : source = join(m)
    /\ pc = "start"
    /\ CallIdle
    /\ RunIdle

\* extract_one left by the SyntaxError of ast.parse
Raised == [found |-> FALSE, raised |-> TRUE]

\* extract_one on a text that ast.parse may reject
extract_one_call(src, name) ==
    IF ParseFails(src) THEN Raised ELSE extract_one(src, name)

\* a second extract_one, of another name, on the remainder of the first
ExtractAgain ==
    /\ pc = "extracted"
    /\ extraction # None
    /\ \E name \in Names \ {request} :
          /\ request2' = name
          /\ extraction2' = extract_one_call(extraction.remainder, name)
    /\ pc' = "extracted_again"
    /\ UNCHANGED <<source, plan, request, extraction, nominal, resolved, scan, parsed,
                   ident, snake, runvars>>

NextExtract == ExtractOne \/ ExtractAgain

SpecExtract == InitExtract /\ [][NextExtract]_vars

\* ------------------------------------------------------------------------
\* to_snake_case over every short identifier of a small alphabet
\* ------------------------------------------------------------------------

\* an identifier holds at most MaxLen characters
MaxLen == 4

Alphabet == {"A", "B", "a", "b", "1", "_"}

Identifiers == UNION {[1..n -> Alphabet] : n \in 1..MaxLen}

InitNames ==
    /\ ident \in Identifiers
    /\ snake = <<>>
    /\ source = <<>>
    /\ pc = "start"
    /\ plan = NoPlan
    /\ request = ""
    /\ extraction = None
    /\ nominal = 0
    /\ resolved = 0
    /\ scan = InitScan
    /\ parsed = <<>>
    /\ request2 = ""
    /\ extraction2 = None
    /\ RunIdle

ToSnakeCase ==
    /\ pc = "start"
    /\ snake' = to_snake_case(ident)
    /\ pc' = "converted"
    /\ UNCHANGED <<source, plan, request, extraction, nominal, resolved, scan, parsed,
                   request2, extraction2, ident, runvars>>

NextNames == ToSnakeCase

SpecNames == InitNames /\ [][NextNames]_vars

\* ------------------------------------------------------------------------
\* Vocabulary of the properties
\* ------------------------------------------------------------------------

Lines == splitlines(source)

IsCommentLine(line) == startswith(strip(line), "#")
IsBlankLine(line) == strip(line) = <<>>

EndsWith(s, t) == Len(t) <= Len(s) /\ SubSeq(s, Len(s) - Len(t) + 1, Len(s)) = t

\* s with t inserted after its first k tokens
Insert(s, k, t) == SubSeq(s, 1, k) \o t \o SubSeq(s, k + 1, Len(s))

Occurrences(s, x) == Cardinality({i \in DOMAIN s : s[i] = x})

NamesOf(definitions) == [i \in DOMAIN definitions |-> definitions[i].name]

\* the comment-adjusted (resolved) start of a definition of the module
ResolvedStart(defn) == find_comment_start(Lines, defn.start_line)

\* the first definition of the module named as the request, when there is one
HasTarget ==
    LET defs == extract_definitions(source)
    IN  \E i \in DOMAIN defs : defs[i].name = request

Target ==
    LET defs == extract_definitions(source)
    IN  defs[CHOOSE i \in DOMAIN defs :
                /\ defs[i].name = request
                /\ \A j \in 1..(i - 1) : defs[j].name # request]

\* the names an aggregator's text re-exports: the token after each " import "
RECURSIVE ReExportNames(_, _)
ReExportNames(content, i) ==
    IF i >= Len(content) THEN <<>>
    ELSE IF content[i] = " import " THEN <<content[i + 1]>> \o ReExportNames(content, i + 2)
    ELSE ReExportNames(content, i + 1)

\* the names of an aggregator's __all__ literal: each token between quotes
\* after the "__all__ = [" token
RECURSIVE QuotedNames(_, _)
QuotedNames(content, i) ==
    IF i + 2 > Len(content) THEN <<>>
    ELSE IF content[i] = DQ /\ content[i + 2] = DQ
         THEN <<content[i + 1]>> \o QuotedNames(content, i + 3)
         ELSE QuotedNames(content, i + 1)

ExportNames(content) ==
    LET at == {i \in DOMAIN content : content[i] = "__all__ = ["}
    IN  IF at = {} THEN <<>> ELSE QuotedNames(content, (CHOOSE i \in at : TRUE) + 1)

Aggregator == plan.output_files[Len(plan.output_files)]

\* ------------------------------------------------------------------------
\* C1
\* ------------------------------------------------------------------------

C2_PlanShape ==
    pc = "planned" =>
        LET n == Len(plan.definitions)
        IN  /\ plan.definitions = extract_definitions(source)
            /\ Len(plan.output_files) = n + 1
            /\ \A i \in 1..n :
                LET d == plan.definitions[i]
                    f == plan.output_files[i]
                IN  /\ f.relative_path = to_snake_case(Chars[d.name]) \o PyExt
                    /\ EndsWith(f.content, join(SubSeq(Lines, d.start_line, d.end_line)))
            /\ \A i, j \in 1..n :
                i < j => plan.definitions[i].start_line < plan.definitions[j].start_line
            /\ Aggregator.relative_path = InitPath
            /\ SubSeq(Aggregator.content, 1, 3) = <<QQQ, "Auto-generated by atomyst.", QQQ>>

\* a plan of a module with two definitions
C2_Witness ==
    /\ pc = "planned"
    /\ Len(plan.definitions) = 2
    /\ Len(plan.output_files) = 3

\* ------------------------------------------------------------------------
\* C3
\* ------------------------------------------------------------------------

\* C3 as stated: every definition's name occurs exactly once in the
\* aggregator's re-export lines and exactly once in its __all__ list.
C3_ExactlyOnceByName ==
    pc = "planned" =>
        \A i \in DOMAIN plan.definitions :
            /\ Occurrences(ReExportNames(Aggregator.content, 1), plan.definitions[i].name) = 1
            /\ Occurrences(ExportNames(Aggregator.content), plan.definitions[i].name) = 1

\* C3 amended: the re-export lines and the __all__ list each hold one entry
\* per definition, in source order: both equal the sequence of definition
\* names (a name that k definitions share occurs k times).
C3_OneEntryPerDefinition ==
    pc = "planned" =>
        /\ ReExportNames(Aggregator.content, 1) = NamesOf(plan.definitions)
        /\ ExportNames(Aggregator.content) = NamesOf(plan.definitions)

\* a plan of a module in which two definitions share a name
C3_Witness ==
    /\ pc = "planned"
    /\ Len(plan.definitions) = 2
    /\ plan.definitions[1].name = plan.definitions[2].name
    /\ Len(ExportNames(Aggregator.content)) = 2

\* ------------------------------------------------------------------------
\* C4
\* ------------------------------------------------------------------------

\* C4: the import block is a prefix of the module's lines.
C4_ImportBlockIsPrefix ==
    pc = "scanned" =>
        \E k \in 0..Len(Lines) : scan.result = SubSeq(Lines, 1, k)

\* ------------------------------------------------------------------------
\* C5
\* ------------------------------------------------------------------------

\* the header of a type-only import guard
IsGuardHeader(line) == startswith(strip(line), "if TYPE_CHECKING")

\* line ends the scan: it is not blank, not a comment, starts no import and
\* is outside a guard block (header and deeper-indented body), an open
\* continuation and the documentation preamble before the first import
Terminates(st, line) ==
    /\ ~IsBlankLine(line)
    /\ ~IsCommentLine(line)
    /\ ~StartsImport(strip(line))
    /\ ~IsGuardHeader(line)
    /\ ~(st.in_type_checking /\ Indent(line) > st.type_checking_indent)
    /\ ~(st.paren_depth > 0)
    /\ ~(~st.in_imports /\ (startswith(strip(line), QQQ) \/ startswith(strip(line), "'''")))

\* the lines at which the scanner, arriving there, must stop
TerminatingLines ==
    {j \in DOMAIN Lines :
        /\ ~ScanPrefix(Lines, j - 1).stopped
        /\ Terminates(ScanPrefix(Lines, j - 1), Lines[j])}

\* C5: the scan stops at the first terminating line: that line and every
\* later line, an import statement included, are outside the import block.
C5_StopsAtFirstNonImport ==
    pc = "scanned" =>
        \A j \in TerminatingLines :
            /\ scan.stopped
            /\ \A k \in DOMAIN scan.idx : scan.idx[k] < j

\* the scan stopped at a statement that an import statement follows, after
\* it had included a line
C5_Witness ==
    /\ pc = "scanned"
    /\ scan.idx # <<>>
    /\ \E j \in TerminatingLines :
        \E i \in DOMAIN Lines : i > j /\ StartsImport(strip(Lines[i]))

\* ------------------------------------------------------------------------
\* C6
\* ------------------------------------------------------------------------

\* C6: find_comment_start returns r, 1 <= r <= s, with every line r..s-1 a
\* comment line and line r-1 (if any) not a comment line.
C6_CommentRunAbsorbed ==
    pc = "resolved" =>
        /\ 1 <= resolved /\ resolved <= nominal
        /\ \A i \in resolved..(nominal - 1) : IsCommentLine(Lines[i])
        /\ resolved > 1 => ~IsCommentLine(Lines[resolved - 1])

\* a comment directly above was absorbed and a comment further up, behind a
\* blank line, was not
C6_Witness ==
    /\ pc = "resolved"
    /\ resolved = 3
    /\ nominal = 4
    /\ IsBlankLine(Lines[2])
    /\ IsCommentLine(Lines[1])

\* ------------------------------------------------------------------------
\* C7
\* ------------------------------------------------------------------------

\* the lines of definition i's resolved range
RangeLines(defn) == SubSeq(Lines, ResolvedStart(defn), defn.end_line)

\* C7 as stated: the file's lines are the import block's lines, exactly one
\* blank line, then the lines of the resolved range.
C7_OneBlankSeparator ==
    pc = "planned" =>
        \A i \in DOMAIN plan.definitions :
            splitlines(plan.output_files[i].content)
                = splitlines(plan.import_block) \o <<Blank>> \o RangeLines(plan.definitions[i])

\* C7 amended: the content is the import block, exactly two line
\* terminators, then the resolved range less its leading line terminators;
\* when the import block is empty or ends with a line terminator that is
\* the import block's lines, exactly two blank lines, the range's lines.
C7_TwoTerminatorSeparator ==
    pc = "planned" =>
        \A i \in DOMAIN plan.definitions :
            LET f == plan.output_files[i]
                d == plan.definitions[i]
                ib == plan.import_block
            IN  /\ f.content = ib \o <<NL, NL>> \o lstripNL(join(RangeLines(d)))
                /\ (ib = <<>> \/ ib[Len(ib)] = NL) =>
                      splitlines(f.content)
                          = splitlines(ib) \o <<Blank, Blank>> \o RangeLines(d)

\* a definition file built on an import block that ends with a blank line
C7_Witness ==
    /\ pc = "planned"
    /\ EndsWith(plan.import_block, <<NL, NL>>)
    /\ plan.definitions # <<>>
    /\ Len(plan.output_files[1].content) > Len(plan.import_block) + 2

\* ------------------------------------------------------------------------
\* C8
\* ------------------------------------------------------------------------

\* C8: the relative paths of a plan's output files are pairwise distinct.
C8_UniquePaths ==
    pc = "planned" =>
        \A i, j \in DOMAIN plan.output_files :
            i # j => plan.output_files[i].relative_path # plan.output_files[j].relative_path

\* ------------------------------------------------------------------------
\* C9
\* ------------------------------------------------------------------------

\* C9: the resolved ranges of two distinct definitions of a plan share no
\* line, so no definition file holds a line of another definition.
C9_ResolvedRangesDisjoint ==
    pc = "planned" =>
        \A i, j \in DOMAIN plan.definitions :
            i < j => plan.definitions[i].end_line < ResolvedStart(plan.definitions[j])

\* ------------------------------------------------------------------------
\* C10
\* ------------------------------------------------------------------------

\* C10: when no top-level definition has the requested name, extract_one
\* returns None: no extracted file and no remainder, the module text as it
\* was.
C10_NotFoundIsNone ==
    [][(pc = "start" /\ pc' = "extracted"
            /\ \A i \in DOMAIN extract_definitions(source) :
                  extract_definitions(source)[i].name # request')
        => (extraction' = None /\ source' = source)]_vars

\* a name that no definition of a module with definitions has was requested
C10_Witness ==
    /\ pc = "extracted"
    /\ extract_definitions(source) # <<>>
    /\ ~HasTarget
    /\ extraction = None

\* ------------------------------------------------------------------------
\* C12: plan before write
\* ------------------------------------------------------------------------

FileSystemUnchanged == files = files0 /\ dirs = dirs0

\* C12: in run, the file system is changed and write_files is entered only
\* after plan_atomization has returned its plan; when ast.parse fails the
\* exception leaves run with no plan, no outcome, and the file system as it
\* was when run was entered.
C12_PlanBeforeWrite ==
    /\ (~FileSystemUnchanged \/ created # <<>> \/ pc = "writing")
          => /\ plan # NoPlan
             /\ plan.source_name = SourceName
             /\ plan.definitions # <<>>
             /\ did_read
    /\ plan = NoPlan => FileSystemUnchanged
    /\ (pc = "raised" /\ error = "SyntaxError")
          => /\ FileSystemUnchanged
             /\ plan = NoPlan
             /\ outcome = NoOutcome
             /\ created = <<>>
             /\ exit_code = -1
    /\ ParseFails(source) => pc \in {"run", "read", "plan", "raised"}

C12_Witness ==
    /\ pc = "raised"
    /\ error = "SyntaxError"
    /\ did_read
    /\ ~dry_run
    /\ dirs0 = {}
    /\ FileSystemUnchanged

\* ------------------------------------------------------------------------
\* C13: missing source
\* ------------------------------------------------------------------------

\* C13: when the source path does not exist, run does nothing but return
\* (1, "Error: <path> does not exist"): it reads nothing, computes no plan,
\* enters no write, and the file system stays as it was; exit code 1 is
\* returned in this case only.
C13_MissingSource ==
    /\ ~src_exists
          => /\ pc \in {"run", "done"}
             /\ ~did_read
             /\ plan = NoPlan
             /\ created = <<>>
             /\ outcome = NoOutcome
             /\ FileSystemUnchanged
             /\ error = ""
             /\ pc = "done"
                   => /\ exit_code = 1
                      /\ output = render_error(<<SourceName, " does not exist">>)
    /\ exit_code = 1 => ~src_exists

C13_Witness ==
    /\ ~src_exists
    /\ pc = "done"
    /\ exit_code = 1
    /\ ~dry_run
    /\ files0 # {}
    /\ FileSystemUnchanged

\* ------------------------------------------------------------------------
\* C14: dry run
\* ------------------------------------------------------------------------

\* C14: with dry_run set, run never enters write_files: the file system
\* stays as it was (the output directory is not created), and when run
\* returns for a module with definitions the exit code is 0 and the outcome
\* holds the computed plan with written_paths = None.
C14_DryRunWritesNothing ==
    dry_run
       => /\ FileSystemUnchanged
          /\ created = <<>>
          /\ pc # "writing"
          /\ written_paths = NoPaths
          /\ (pc = "done" /\ src_exists) => exit_code = 0
          /\ outcome.built
                => /\ outcome.written_paths = NoPaths
                   /\ outcome.plan = plan_atomization(source, SourceName)
                   /\ outcome.plan.definitions # <<>>
                   /\ exit_code = 0

C14_Witness ==
    /\ dry_run
    /\ pc = "done"
    /\ outcome.built
    /\ outcome.written_paths = NoPaths
    /\ Len(outcome.plan.output_files) > 1
    /\ resolved_output_dir \notin dirs
    /\ exit_code = 0

\* ------------------------------------------------------------------------
\* C15: nothing to do
\* ------------------------------------------------------------------------

\* C15: for a module that parses and has no top-level definition, run
\* returns (0, "No definitions found in <path>"), which is not the error
\* rendering that goes with exit code 1; it never reaches the write step,
\* so no file is written (the aggregator of the plan stays unwritten) and
\* no directory is created, with dry_run set or not.
C15_NothingToDo ==
    (src_exists /\ ~ParseFails(source) /\ extract_definitions(source) = <<>>)
       => /\ pc \in {"run", "read", "plan", "done"}
          /\ FileSystemUnchanged
          /\ created = <<>>
          /\ outcome = NoOutcome
          /\ error = ""
          /\ pc = "done"
                => /\ exit_code = 0
                   /\ plan.definitions = <<>>
                   /\ output.text = <<"No definitions found in ", SourceName>>
                   /\ output.renderer # "render_error"
                   /\ output.text # render_error(<<SourceName, " does not exist">>).text

C15_Witness ==
    /\ src_exists
    /\ source # <<>>
    /\ pc = "done"
    /\ plan.definitions = <<>>
    /\ Len(plan.output_files) = 1
    /\ ~dry_run
    /\ exit_code = 0
    /\ dirs = {}

\* ------------------------------------------------------------------------
\* C16: what a successful run leaves in the output directory
\* ------------------------------------------------------------------------

\* the files of the resolved output directory that bear a planned name
PlannedFilesOnDisk ==
    {f \in files :
        /\ f.dir = resolved_output_dir
        /\ \E i \in DOMAIN plan.output_files : f.path = plan.output_files[i].relative_path}

\* C16: after a successful non-dry run on a module with n >= 1 definitions,
\* the resolved output directory exists and holds n + 1 files of this run,
\* one per definition plus the aggregator, each under its planned relative
\* path with exactly its planned content (replacing any older file of that
\* name).
C16_AllPlannedFilesWritten ==
    (pc = "done" /\ outcome.built /\ ~dry_run)
       => /\ resolved_output_dir \in dirs
          /\ \A i \in DOMAIN plan.output_files :
                [dir |-> resolved_output_dir,
                 path |-> plan.output_files[i].relative_path,
                 content |-> plan.output_files[i].content] \in files
          /\ Cardinality(PlannedFilesOnDisk) = Len(plan.definitions) + 1

\* ------------------------------------------------------------------------
\* C17, C18: the line ranges of the definition descriptors
\* ------------------------------------------------------------------------

\* a physical line at the left margin that begins with a decorator sign
IsDecoratorLine(line) == Indent(line) = 0 /\ startswith(strip(line), "@")

\* a physical line at the left margin that begins with a definition keyword
IsKeywordLine(line) == Indent(line) = 0 /\ line # <<>> /\ Head(line) \in DefKeywords

\* the line of the definition keyword of a descriptor: the first keyword line
\* at or after its start line
KeywordLine(defn) ==
    CHOOSE k \in defn.start_line..Len(Lines) :
        /\ IsKeywordLine(Lines[k])
        /\ \A j \in defn.start_line..(k - 1) : ~IsKeywordLine(Lines[j])

\* the nearest line above line i that is neither blank nor a comment, 0 for none
RECURSIVE StatementAbove(_)
StatementAbove(i) ==
    IF i <= 1 THEN 0
    ELSE IF IsBlankLine(Lines[i - 1]) \/ IsCommentLine(Lines[i - 1])
         THEN StatementAbove(i - 1)
         ELSE i - 1

\* C17: every descriptor names the definition of its keyword line; when
\* decorator lines stand above that line, start_line is the first of them
\* (every line from start_line to the keyword is a decorator, a comment or
\* blank, and no decorator is left above start_line); otherwise start_line
\* is the keyword's line.
C17_StartAtFirstDecorator ==
    pc = "parsed" =>
        \A i \in DOMAIN parsed :
            LET defn == parsed[i]
                k == KeywordLine(defn)
                above == StatementAbove(k)
            IN  /\ defn.start_line \in 1..Len(Lines)
                /\ \E kw \in defn.start_line..Len(Lines) : IsKeywordLine(Lines[kw])
                /\ Lines[k][2] = defn.name
                /\ defn.kind = KindOf(Head(Lines[k]))
                /\ IF above > 0 /\ IsDecoratorLine(Lines[above])
                   THEN /\ defn.start_line < k
                        /\ IsDecoratorLine(Lines[defn.start_line])
                        /\ \A j \in defn.start_line..(k - 1) :
                              \/ IsDecoratorLine(Lines[j])
                              \/ IsBlankLine(Lines[j])
                              \/ IsCommentLine(Lines[j])
                        /\ LET up == StatementAbove(defn.start_line)
                           IN  up > 0 => ~IsDecoratorLine(Lines[up])
                   ELSE defn.start_line = k

C17_Witness ==
    /\ pc = "parsed"
    /\ \E i \in DOMAIN parsed :
          /\ parsed[i].start_line > 1
          /\ KeywordLine(parsed[i]) = parsed[i].start_line + 2
          /\ IsDecoratorLine(Lines[parsed[i].start_line])
          /\ IsDecoratorLine(Lines[parsed[i].start_line + 1])
    /\ \E i \in DOMAIN parsed : KeywordLine(parsed[i]) = parsed[i].start_line

\* the lines start_line..end_line of a descriptor
NominalRange(defn) == defn.start_line..defn.end_line

\* C18: the descriptors extract_definitions returns have non-empty ranges
\* inside the module, any two of them share no line (so none contains
\* another), and they come in source order: each descriptor's end_line is
\* below the start_line of the next.
C18_RangesDisjointInOrder ==
    pc = "parsed" =>
        /\ \A i \in DOMAIN parsed :
              /\ 1 <= parsed[i].start_line
              /\ parsed[i].start_line <= parsed[i].end_line
              /\ parsed[i].end_line <= Len(Lines)
        /\ \A i, j \in DOMAIN parsed :
              i # j => NominalRange(parsed[i]) \cap NominalRange(parsed[j]) = {}
        /\ \A i \in 1..(Len(parsed) - 1) : parsed[i].end_line < parsed[i + 1].start_line

C18_Witness ==
    /\ pc = "parsed"
    /\ Len(parsed) >= 2
    /\ \E i \in 1..(Len(parsed) - 1) : parsed[i].end_line + 1 = parsed[i + 1].start_line
    /\ \E i \in DOMAIN parsed : parsed[i].start_line < KeywordLine(parsed[i])

\* ------------------------------------------------------------------------
\* C19: the documentation preamble
\* ------------------------------------------------------------------------

\* the numbers of the lines extract_imports returned
Included == {scan.idx[k] : k \in DOMAIN scan.idx}

\* a triple-quoted string is open at the end of line j
RECURSIVE InStringAfter(_)
InStringAfter(j) ==
    IF j = 0 THEN FALSE ELSE Lex(Lines[j], 1, InStringAfter(j - 1), 0).inStr

\* line j belongs to a string literal that starts a line
IsDocLine(j) == InStringAfter(j - 1) \/ startswith(strip(Lines[j]), QQQ)

\* line j is a comment line outside any string
IsLeadingComment(j) == ~InStringAfter(j - 1) /\ IsCommentLine(Lines[j])

\* lines 1..j are all documentation, comment or blank lines
InPreamble(j) ==
    \A k \in 1..j :
        \/ IsDocLine(k)
        \/ IsLeadingComment(k)
        \/ IsBlankLine(Lines[k])

\* C19: every comment line and every line of a documentation string that
\* stands in the preamble (the lines before the first statement) is in the
\* import block, and so is the import statement that follows the preamble.
C19_PreambleIncluded ==
    pc = "scanned" =>
        \A j \in DOMAIN Lines :
            /\ (InPreamble(j) /\ (IsDocLine(j) \/ IsLeadingComment(j))) => j \in Included
            /\ (InPreamble(j - 1) /\ ~InStringAfter(j - 1) /\ StartsImport(strip(Lines[j])))
                  => j \in Included

\* ------------------------------------------------------------------------
\* C20: the guard block
\* ------------------------------------------------------------------------

\* the scanner arrives at line h with the loop not broken and line h is not
\* in the body of an earlier guard
MeetsHeader(h) ==
    LET st == ScanPrefix(Lines, h - 1)
    IN  /\ IsGuardHeader(Lines[h])
        /\ ~st.stopped
        /\ ~(st.in_type_checking /\ Indent(Lines[h]) > st.type_checking_indent)

\* the first line after header h that is not blank and is indented no deeper
\* than the header; Len(Lines) + 1 when the block runs to the end
RECURSIVE BlockEnd(_, _)
BlockEnd(h, j) ==
    IF j > Len(Lines) THEN j
    ELSE IF ~IsBlankLine(Lines[j]) /\ Indent(Lines[j]) <= Indent(Lines[h]) THEN j
    ELSE BlockEnd(h, j + 1)

\* C20: a guard header the scanner meets is in the import block together
\* with every line up to the first non-blank line indented no deeper than
\* the header; that line is handled as any line after an import: an import
\* statement or another header is included, a comment is skipped, and any
\* other statement ends the scan, leaving it and all later lines out.
C20_GuardBlockIncluded ==
    pc = "scanned" =>
        \A h \in DOMAIN Lines :
            MeetsHeader(h) =>
                LET e == BlockEnd(h, h + 1)
                IN  /\ \A j \in h..(e - 1) : j \in Included
                    /\ e <= Len(Lines) =>
                          IF StartsImport(strip(Lines[e])) \/ IsGuardHeader(Lines[e])
                          THEN e \in Included
                          ELSE IF IsCommentLine(Lines[e])
                          THEN e \notin Included
                          ELSE \A k \in Included : k < e

C20_Witness ==
    /\ pc = "scanned"
    /\ \E h \in DOMAIN Lines :
          /\ MeetsHeader(h)
          /\ BlockEnd(h, h + 1) = h + 4
          /\ IsBlankLine(Lines[h + 2])
          /\ ~StartsImport(strip(Lines[h + 3]))
          /\ h + 3 \in Included
          /\ h + 4 <= Len(Lines)
          /\ ~IsCommentLine(Lines[h + 4])
          /\ h + 4 \notin Included
          /\ scan.stopped

\* ------------------------------------------------------------------------
\* C21: the continuation counter
\* ------------------------------------------------------------------------

\* count of "(" minus count of ")" on line j
ParenDelta(j) == count(Lines[j], "(") - count(Lines[j], ")")

\* the scanner's variables when it arrives at line j
Before(j) == ScanPrefix(Lines, j - 1)

\* the scanner's variables when it leaves line j
After(j) == ScanPrefix(Lines, j)

\* the position in the result of the included line j
PositionOf(j) == CHOOSE k \in DOMAIN scan.idx : scan.idx[k] = j

\* C21: every line the scanner arrives at (the loop not broken) that starts
\* an import statement is included and moves the continuation counter by
\* its count of "(" minus its count of ")"; and every line it arrives at
\* with the counter positive is included verbatim, whatever it holds, and
\* moves the counter by the same rule.
C21_ContinuationCounter ==
    pc = "scanned" =>
        \A j \in DOMAIN Lines :
            ~Before(j).stopped =>
                /\ StartsImport(strip(Lines[j]))
                      => /\ j \in Included
                         /\ After(j).paren_depth = Before(j).paren_depth + ParenDelta(j)
                /\ Before(j).paren_depth > 0
                      => /\ j \in Included
                         /\ scan.result[PositionOf(j)] = Lines[j]
                         /\ After(j).paren_depth = Before(j).paren_depth + ParenDelta(j)

\* ------------------------------------------------------------------------
\* C22: first match wins
\* ------------------------------------------------------------------------

\* the positions, in source order, of the definitions that bear the
\* requested name
Matches ==
    {i \in DOMAIN extract_definitions(source) :
        extract_definitions(source)[i].name = request}

\* C22: when several definitions bear the requested name, extract_one
\* extracts the first of them: the extracted file is the file of the first
\* match, the remainder is the module without the first match's resolved
\* range, and the lines of every later match stand unchanged in the
\* remainder.
C22_FirstMatchWins ==
    (pc = "extracted" /\ Cardinality(Matches) >= 2) =>
        LET defs == extract_definitions(source)
            first == CHOOSE i \in Matches : \A j \in Matches : i <= j
            a == ResolvedStart(defs[first])
            e == defs[first].end_line
            removed == e - a + 1
            rest == splitlines(extraction.remainder)
        IN  /\ extraction.found
            /\ extraction.extracted
                  = build_definition_file(defs[first], Lines, join(extract_imports(Lines)))
            /\ rest = SubSeq(Lines, 1, a - 1) \o SubSeq(Lines, e + 1, Len(Lines))
            /\ \A i \in Matches \ {first} :
                  /\ defs[i].start_line > e
                  /\ SubSeq(rest, defs[i].start_line - removed, defs[i].end_line - removed)
                        = SubSeq(Lines, defs[i].start_line, defs[i].end_line)

\* two definitions of the requested name with different texts, the first
\* below a comment it absorbs
C22_Witness ==
    /\ pc = "extracted"
    /\ Cardinality(Matches) = 2
    /\ extraction.found
    /\ LET defs == extract_definitions(source)
           first == CHOOSE i \in Matches : \A j \in Matches : i <= j
           last == CHOOSE i \in Matches : \A j \in Matches : i >= j
       IN  /\ defs[first].kind # defs[last].kind
           /\ ResolvedStart(defs[first]) < defs[first].start_line

\* ------------------------------------------------------------------------
\* C23: where to_snake_case puts a separator
\* ------------------------------------------------------------------------

\* (a) a lowercase letter or digit at position i, an uppercase letter next
LowerToUpper(s, i) == (IsLower(s[i]) \/ IsDigit(s[i])) /\ IsUpper(s[i + 1])

\* (b) position i + 1 is the last capital of a run of two or more uppercase
\* letters and starts a capitalized word
RunToWord(s, i) ==
    /\ IsUpper(s[i])
    /\ IsUpper(s[i + 1])
    /\ i + 2 <= Len(s)
    /\ IsLower(s[i + 2])

\* s with a separator after each position i < Len(s) where (a) or (b) holds
RECURSIVE Separated(_, _)
Separated(s, i) ==
    IF i > Len(s) THEN <<>>
    ELSE IF i < Len(s) /\ (LowerToUpper(s, i) \/ RunToWord(s, i))
         THEN <<s[i], "_">> \o Separated(s, i + 1)
         ELSE <<s[i]>> \o Separated(s, i + 1)

\* C23: the result is the lowercased name with one separator at each
\* lowercase-or-digit to uppercase boundary and one before the last capital
\* of an uppercase run that a capitalized word follows, and no other; a
\* name without uppercase letters is returned unchanged.
C23_SeparatorsAtBoundariesOnly ==
    pc = "converted" =>
        /\ snake = lower(Separated(ident, 1))
        /\ (\A i \in DOMAIN ident : ~IsUpper(ident[i])) => snake = ident

\* ------------------------------------------------------------------------
\* C24: blank lines
\* ------------------------------------------------------------------------

\* an import statement or a guard header was included above line j
RegionOpenedAbove(j) ==
    \E k \in Included :
        /\ k < j
        /\ StartsImport(strip(Lines[k])) \/ IsGuardHeader(Lines[k])

\* C24: a blank line is in the import block only if an import statement or
\* a guard header was included above it (which covers a blank line in a
\* guard block and in an open continuation); a blank line above the first
\* of them is never included.
C24_BlankOnlyInsideRegion ==
    pc = "scanned" =>
        \A j \in DOMAIN Lines :
            IsBlankLine(Lines[j]) =>
                /\ j \in Included => (RegionOpenedAbove(j) /\ Before(j).in_imports)
                /\ ~RegionOpenedAbove(j) => j \notin Included

\* a blank line above the first import was left out, and blank lines below
\* it, in a guard block and in a continuation, were included
C24_Witness ==
    /\ pc = "scanned"
    /\ Lines # <<>>
    /\ IsBlankLine(Lines[1])
    /\ 1 \notin Included
    /\ \E j \in Included : IsBlankLine(Lines[j]) /\ Before(j).in_type_checking
    /\ \E j \in Included : IsBlankLine(Lines[j]) /\ Before(j).paren_depth > 0

\* ------------------------------------------------------------------------
\* C25: the import block is a subsequence of the module's lines
\* ------------------------------------------------------------------------

\* r can be read off l from left to right, skipping lines of l
RECURSIVE IsSubsequence(_, _)
IsSubsequence(r, l) ==
    IF r = <<>> THEN TRUE
    ELSE IF l = <<>> THEN FALSE
    ELSE IF Head(r) = Head(l) THEN IsSubsequence(Tail(r), Tail(l))
    ELSE IsSubsequence(r, Tail(l))

\* C25: the result of extract_imports is a subsequence of the input lines:
\* its k-th line is the input line it was taken from, character for
\* character, the lines were taken from strictly increasing positions (so
\* none twice, and in the order of the module).
C25_OrderPreservingSubsequence ==
    pc = "scanned" =>
        /\ IsSubsequence(scan.result, Lines)
        /\ Len(scan.result) = Len(scan.idx)
        /\ \A k \in DOMAIN scan.result :
              /\ scan.idx[k] \in DOMAIN Lines
              /\ scan.result[k] = Lines[scan.idx[k]]
        /\ \A k \in 1..(Len(scan.idx) - 1) : scan.idx[k] < scan.idx[k + 1]

\* lines were skipped between included ones, and an indented line was
\* included
C25_Witness ==
    /\ pc = "scanned"
    /\ Len(scan.result) >= 3
    /\ \E k \in 1..(Len(scan.idx) - 1) : scan.idx[k] + 1 < scan.idx[k + 1]
    /\ \E k \in DOMAIN scan.result : Indent(scan.result[k]) > 0

\* ------------------------------------------------------------------------
\* C26: two extractions in either order
\* ------------------------------------------------------------------------

\* the first definition of the module that bears the name
FirstNamed(name) ==
    LET defs == extract_definitions(source)
    IN  defs[FindTarget(defs, name, 1)]

\* the lines of the module that extract_one removes for the name
RemovedLines(name) ==
    ResolvedStart(FirstNamed(name))..FirstNamed(name).end_line

\* the lines at the positions of keep, in order, from position i on
RECURSIVE LinesAt(_, _)
LinesAt(keep, i) ==
    IF i > Len(Lines) THEN <<>>
    ELSE IF i \in keep THEN <<Lines[i]>> \o LinesAt(keep, i + 1)
    ELSE LinesAt(keep, i + 1)

\* C26: when the module defines both requested names, the second
\* extraction succeeds, its remainder is the module without the lines that
\* extract_one removes for either name from the original module, and the
\* two extractions made in the other order succeed with the same final
\* remainder.
C26_ExtractionsCommute ==
    (/\ pc = "extracted_again"
     /\ request \in {d.name : d \in {extract_definitions(source)[i] :
                                       i \in DOMAIN extract_definitions(source)}}
     /\ request2 \in {d.name : d \in {extract_definitions(source)[i] :
                                        i \in DOMAIN extract_definitions(source)}})
       => LET other1 == extract_one_call(source, request2)
              other2 == extract_one_call(other1.remainder, request)
          IN  /\ extraction2.found
              /\ extraction2.remainder
                    = join(LinesAt(DOMAIN Lines
                                      \ (RemovedLines(request) \cup RemovedLines(request2)), 1))
              /\ other1.found
              /\ other2.found
              /\ other2.remainder = extraction2.remainder

\* ------------------------------------------------------------------------
\* C27: import block and definition ranges
\* ------------------------------------------------------------------------

\* the numbers of the lines of the module that make the import block
ImportLines ==
    LET st == ScanPrefix(Lines, Len(Lines))
    IN  {st.idx[k] : k \in DOMAIN st.idx}

\* C27: no line of the module is both in the import block and in the
\* resolved range of a definition of the plan, so the content of a
\* definition file (import block, then the resolved range) holds no line
\* of the module twice.
C27_ImportBlockApartFromRanges ==
    pc = "planned" =>
        \A i \in DOMAIN plan.definitions :
            LET defn == plan.definitions[i]
            IN  ImportLines \cap (ResolvedStart(defn)..defn.end_line) = {}

\* ------------------------------------------------------------------------
\* C28: the order of the writes
\* ------------------------------------------------------------------------

\* the file system after the first k files of the plan were written, one
\* after the other, over the file system run found
RECURSIVE AfterWrites(_)
AfterWrites(k) ==
    IF k = 0 THEN files0
    ELSE write_text(AfterWrites(k - 1), resolved_output_dir,
                    plan.output_files[k].relative_path, plan.output_files[k].content)

\* the paths this run has written
WrittenPaths == {created[k] : k \in DOMAIN created}

\* the files of fs that are not at the path of planned file k
Besides(fs, k) ==
    {f \in fs : ~(f.dir = resolved_output_dir
                    /\ f.path = plan.output_files[k].relative_path)}

\* C28: in a non-dry run the plan lists the definition files in source
\* order and the aggregator last, and the run has written, at any moment, a
\* prefix of that list, one file per step, over the file system it found;
\* once the aggregator is written every definition file it re-exports has
\* been written by this run; and when a write fails part-way every path
\* written before it still holds a file, and nothing but the file of the
\* failed write differs from what the writes before it left.
C28_WritesInPlanOrder ==
    (~dry_run /\ plan # NoPlan) =>
        LET n == Len(plan.definitions)
            dir == resolved_output_dir
        IN  /\ Len(plan.output_files) = n + 1
            /\ \A i \in 1..n :
                  plan.output_files[i].relative_path
                      = to_snake_case(Chars[plan.definitions[i].name]) \o PyExt
            /\ plan.output_files[n + 1].relative_path = InitPath
            /\ Len(created) <= n + 1
            /\ \A k \in DOMAIN created :
                  created[k] = [dir |-> dir, path |-> plan.output_files[k].relative_path]
            /\ pc # "raised" => files = AfterWrites(Len(created))
            /\ [dir |-> dir, path |-> InitPath] \in WrittenPaths
                  => \A i \in 1..n :
                        /\ [dir |-> dir, path |-> plan.output_files[i].relative_path]
                              \in WrittenPaths
                        /\ \E f \in files :
                              f.dir = dir /\ f.path = plan.output_files[i].relative_path
            /\ (pc = "raised" /\ error = "OSError")
                  => /\ Len(created) <= n
                     /\ \A k \in DOMAIN created :
                           \E f \in files :
                               f.dir = created[k].dir /\ f.path = created[k].path
                     /\ Besides(files, Len(created) + 1)
                           = Besides(AfterWrites(Len(created)), Len(created) + 1)

\* the write of the aggregator failed after two definition files were
\* written over a populated directory
C28_Witness ==
    /\ pc = "raised"
    /\ error = "OSError"
    /\ ~dry_run
    /\ Len(created) = 2
    /\ Len(plan.output_files) = 3
    /\ created[1].path # created[2].path
    /\ files0 # {}
    /\ files # AfterWrites(2)
    /\ files # files0

====
